---- MODULE Spec2Model ----
(***************************************************************************)
(* Model of storage_scraper: StorageScraper.scrape_urls fans the input     *)
(* URLs out over asyncio tasks gated by asyncio.Semaphore(3); every task   *)
(* runs _scrape_url (Playwright page -> HTML) and then                     *)
(* OllamaClient.extract_storage_data (model call -> units).                *)
(* ParseSpec and CleanSpec run _parse_ollama_response and                  *)
(* _clean_html_for_llm on their own, over bounded sets of arguments.       *)
(*                                                                         *)
(* Strings are sequences of tokens: "" is <<>>, concatenation is \o.       *)
(* Optional[str] is a sequence of length <= 1: None is <<>>, a string s is *)
(* <<s>>.                                                                  *)
(***************************************************************************)
EXTENDS Integers, Sequences, FiniteSets, TLC

\* Longest input URL list explored.
MaxUrls == 4

\* Mutant: a semaphore of one permit.
SemaphoreValueOne == 3 - 2

\* asyncio.Semaphore(3)
SemaphoreValue == 3

\* The catalogue the input lists are drawn from (scrape_urls only copies urls).
UrlCatalogue == <<"u1", "u2", "u3", "u4", "u5", "u6">>

\* Status codes page.goto's response may carry.
HttpStatuses == {200, 400, 404}

\* The response of page.goto: None is status 0; -1 before page.goto returned.
NoResponse == 0
NotNavigated == -1

Range(s) == {s[k] : k \in 1..Len(s)}

EmptyStr == <<>>
None == <<>>
Some(s) == <<s>>

\* Exceptions the environment raises: a timeout with its message, and an
\* exception constructed without arguments, whose str() is "".
Exc(type, msg) == [type |-> type, msg |-> msg]
TimeoutExc == Exc("timeout", <<"Timeout exceeded">>)
BareExc == Exc("error", EmptyStr)
Exceptions == {TimeoutExc, BareExc}

\* What new_page, wait_for_timeout and content raise when the page or the
\* browser is gone.
PageExceptions == {BareExc}

\* str(e)
Str(e) == e.msg

----------------------------------------------------------------------------
\* models.py

StorageUnit(url, size, price) == [url |-> url, size |-> size, price |-> price]

\* ScrapingResult(url=..., success=..., units=[...], error=...) with the
\* defaults units=[] and error=None.
ScrapingResult(url, success, units, error) ==
    [kind |-> "result", url |-> url, success |-> success,
     units |-> units, error |-> error]

\* What a task of asyncio.gather holds: nothing yet, the value returned by
\* the coroutine, or (return_exceptions=True) the exception it raised.
Pending == [kind |-> "pending"]
Raised(e) == [kind |-> "exception", exc |-> e]

----------------------------------------------------------------------------
\* ollama_client.py

\* JSON values of an object's fields, and str(value): a string is its text,
\* null is None and prints as "None", a number prints as its digits.
JStr(s) == [t |-> "str", s |-> s]
JNull == [t |-> "null", s |-> <<>>]
JNum(s) == [t |-> "num", s |-> s]
StrOf(v) == IF v.t = "null" THEN <<"None">> ELSE v.s

\* Whitespace tokens, and s.strip().
Whitespace == {" ", "\n"}
RECURSIVE LStrip(_)
LStrip(s) == IF s # <<>> /\ Head(s) \in Whitespace THEN LStrip(Tail(s)) ELSE s
RECURSIVE RStrip(_)
RStrip(s) ==
    IF s # <<>> /\ s[Len(s)] \in Whitespace THEN RStrip(SubSeq(s, 1, Len(s) - 1)) ELSE s
Strip(s) == RStrip(LStrip(s))

\* Elements of a parsed array: objects with their keys and the values of
\* "size" and "price", and everything that is not an object.
Object(keys, size, price) == [isdict |-> TRUE, keys |-> keys, size |-> size, price |-> price]
NotAnObject == [isdict |-> FALSE, keys |-> {}, size |-> JNull, price |-> JNull]
GoodItem == Object({"size", "price"}, JStr(<<"5x5">>), JStr(<<"$50/month">>))
NoPriceItem == Object({"size"}, JStr(<<"5x5">>), JNull)
PaddedItem == Object({"size", "price", "raw_size"},
                     JStr(<<" ", "10x10", "\n">>), JStr(<<" ", "$99">>))
BlankSizeItem == Object({"size", "price"}, JStr(<<" ">>), JStr(<<"$50/month">>))
CoercedItem == Object({"size", "price"}, JNull, JNum(<<"7">>))

\* Parsed payloads of the model's reply text (json.loads of the candidate):
\* the text is not JSON, it is JSON but not an array (v is the value when it
\* is an object), or it is an array.
NotJson == [json |-> FALSE, islist |-> FALSE, items |-> <<>>]
JsonObject == [json |-> TRUE, islist |-> FALSE, items |-> <<>>]
JsonValue(v) == [json |-> TRUE, islist |-> FALSE, items |-> <<v>>]
JsonList(items) == [json |-> TRUE, islist |-> TRUE, items |-> items]

ModelPayloads == {NotJson, JsonObject, JsonList(<<>>),
                  JsonList(<<NoPriceItem, GoodItem>>)}

\* What the POST to /api/generate does: raise (endpoint unreachable, total
\* timeout elapsed), answer with a non-200 status, or answer 200 with a
\* response text (empty, or carrying one of the payloads).
ModelOutcomes ==
    {[kind |-> "raise", exc |-> e] : e \in Exceptions}
      \cup {[kind |-> "status"]}
      \cup {[kind |-> "empty"]}
      \cup {[kind |-> "text", payload |-> p] : p \in ModelPayloads}

\* The reply of a model call that works.
HealthyReply == [kind |-> "text", payload |-> JsonList(<<NoPriceItem, GoodItem>>)]

\* The environment of a task, per profile: "free" produces every outcome,
\* "lite" one outcome per exit path of the pipeline (of the exceptions only
\* the timeout), "healthy" no failure; "hangs" is healthy until page.goto,
\* which never returns.
Raisable(profile, excs) ==
    IF profile = "free" THEN excs
    ELSE IF profile = "lite" THEN excs \cap {TimeoutExc}
    ELSE {}

\* set_extra_http_headers and page.goto leave the pipeline by the same exit;
\* outside "free" only page.goto raises.
RaisableByHeaders(profile) == IF profile = "free" THEN Exceptions ELSE {}

StatusesOf(profile) ==
    IF profile = "free" THEN HttpStatuses \cup {NoResponse}
    ELSE IF profile = "lite" THEN {200, 404}
    ELSE {200}

ModelOutcomesOf(profile) ==
    IF profile = "free" THEN ModelOutcomes
    ELSE IF profile = "lite" THEN {HealthyReply, [kind |-> "raise", exc |-> TimeoutExc]}
    ELSE {HealthyReply}

\* The loop of lines 148-160: an element becomes a unit when it is an object
\* with the keys "size" and "price"; size and price are str(value).strip().
Accepted(item) == item.isdict /\ "size" \in item.keys /\ "price" \in item.keys

\* Mutant: item['price'] is read without the test of line 149, and the
\* KeyError or TypeError of one element ends the loop: the call returns [].
ParseItemsAborting(items, url) ==
    IF \E k \in 1..Len(items) : ~Accepted(items[k]) THEN <<>>
    ELSE [k \in 1..Len(items) |->
            StorageUnit(url, Strip(StrOf(items[k].size)), Strip(StrOf(items[k].price)))]

RECURSIVE ParseItems(_, _)
ParseItems(items, url) ==
    IF items = <<>> THEN <<>>
    ELSE LET item == Head(items)
             rest == ParseItems(Tail(items), url)
         IN  IF Accepted(item)
             THEN <<StorageUnit(url, Strip(StrOf(item.size)),
                                     Strip(StrOf(item.price)))>> \o rest
             ELSE rest

\* _parse_ollama_response: json.JSONDecodeError and every other exception
\* give [], a non-list gives [], a list gives the accepted items in order.
ParseOllamaResponse(payload, url) ==
    IF ~payload.json THEN <<>>
    ELSE IF ~payload.islist THEN <<>>
    ELSE ParseItems(payload.items, url)

\* The text of a reply is a sequence of tokens: brackets, commas, whitespace,
\* the prose word "w", and one token per JSON object or number.
ElementOf(tok) ==
    CASE tok = "{size,price}" -> GoodItem
      [] tok = "{size}" -> NoPriceItem
      [] tok = "{size:' 10x10 ',price:' $99',raw_size}" -> PaddedItem
      [] tok = "{size:' ',price}" -> BlankSizeItem
      [] tok = "{size:null,price:7}" -> CoercedItem
      [] OTHER -> NotAnObject
ObjectTokens == {"{size,price}", "{size}", "{size:' 10x10 ',price:' $99',raw_size}",
                 "{size:' ',price}", "{size:null,price:7}"}
ValueTokens == ObjectTokens \cup {"7"}

Positions(text, tok) == {k \in 1..Len(text) : text[k] = tok}
Min(S) == CHOOSE x \in S : \A y \in S : x <= y
Max(S) == CHOOSE x \in S : \A y \in S : x >= y

\* Mutant: the pattern is lazy, \[.*?\]: the span ends at the first "]".
SearchSpanLazy(response) ==
    LET opens == Positions(response, "[")
        closes == Positions(response, "]")
    IN  IF \E i \in opens : \E j \in closes : i < j
        THEN <<Min(opens), Min({j \in closes : j > Min(opens)})>>
        ELSE <<0, 0>>

\* re.search(r'\[.*\]', response, re.DOTALL): the leftmost match starts at
\* the first "[" that has a "]" after it, and ".*" is greedy and crosses
\* newlines, so it ends at the last "]". <<0, 0>> is no match.
SearchSpan(response) ==
    LET opens == Positions(response, "[")
        closes == Positions(response, "]")
    IN  IF \E i \in opens : \E j \in closes : i < j
        THEN <<Min(opens), Max(closes)>>
        ELSE <<0, 0>>

\* Lines 137-140: json_match.group(), or response.strip().
JsonStr(response) ==
    LET m == SearchSpan(response)
    IN  IF m # <<0, 0>> THEN SubSeq(response, m[1], m[2]) ELSE Strip(response)

\* json.loads on tokens, whitespace between tokens skipped: a value is an
\* object or number token, or "[" values separated by "," "]".
IsNotWhitespace(tok) == tok \notin Whitespace
ParseFail == [ok |-> FALSE, next |-> 0, islist |-> FALSE, items |-> <<>>]
Parsed(next, islist, items) ==
    [ok |-> TRUE, next |-> next, islist |-> islist, items |-> items]

RECURSIVE ParseValue(_, _)
RECURSIVE ParseElements(_, _)
ParseValue(t, p) ==
    IF p > Len(t) THEN ParseFail
    ELSE IF t[p] = "["
         THEN IF p < Len(t) /\ t[p + 1] = "]" THEN Parsed(p + 2, TRUE, <<>>)
              ELSE ParseElements(t, p + 1)
    ELSE IF t[p] \in ValueTokens THEN Parsed(p + 1, FALSE, <<ElementOf(t[p])>>)
    ELSE ParseFail

ParseElements(t, p) ==
    LET v == ParseValue(t, p)
        e == IF v.islist THEN NotAnObject ELSE v.items[1]
    IN  IF ~v.ok \/ v.next > Len(t) THEN ParseFail
        ELSE IF t[v.next] = "]" THEN Parsed(v.next + 1, TRUE, <<e>>)
        ELSE IF t[v.next] = ","
             THEN LET rest == ParseElements(t, v.next + 1)
                  IN  IF rest.ok THEN Parsed(rest.next, TRUE, <<e>> \o rest.items)
                      ELSE ParseFail
        ELSE ParseFail

\* Line 142, data = json.loads(json_str): NotJson stands for the
\* json.JSONDecodeError it raises.
JsonLoads(json_str) ==
    LET t == SelectSeq(json_str, IsNotWhitespace)
        v == ParseValue(t, 1)
    IN  IF ~v.ok \/ v.next # Len(t) + 1 THEN NotJson
        ELSE IF v.islist THEN JsonList(v.items)
        ELSE JsonValue(v.items[1])

\* A call either returns a value or raises an exception.
Returns(v) == [kind |-> "return", value |-> v]
Raises(e) == [kind |-> "raise", exc |-> e]

\* Mutant: no except clause, the json.JSONDecodeError leaves the function.
ParseResponseTextUncaught(response, url) ==
    LET data == JsonLoads(JsonStr(response))
    IN  IF ~data.json THEN Raises(Exc("JSONDecodeError", <<"Expecting value">>))
        ELSE Returns(ParseOllamaResponse(data, url))

\* _parse_ollama_response(response, url): every exception of the body is
\* caught by the except clauses of lines 165-171, which return [].
ParseResponseText(response, url) ==
    Returns(ParseOllamaResponse(JsonLoads(JsonStr(response)), url))

\* max_chars=8000 and len("...")
MaxChars == 8000
MarkerLen == 3

\* len(s[:n]) for a string of length len
SliceLen(len, n) == IF len < n THEN len ELSE n

\* Mutant: the marker is appended to the whole text.
CleanHtmlForLlmUnsliced(html_len, text_len, raises, max_chars) ==
    IF raises THEN SliceLen(html_len, max_chars)
    ELSE IF text_len > max_chars THEN text_len + MarkerLen
    ELSE text_len

\* _clean_html_for_llm on lengths: the html has html_len characters and its
\* cleaned text text_len; the result is text, or text[:max_chars] + "..."
\* when it is longer than max_chars, or html_content[:max_chars] when the
\* cleaning raises.
CleanHtmlForLlm(html_len, text_len, raises, max_chars) ==
    IF raises THEN SliceLen(html_len, max_chars)
    ELSE IF text_len > max_chars THEN SliceLen(text_len, max_chars) + MarkerLen
    ELSE text_len

\* TypeError("catching classes that do not inherit from BaseException is not
\* allowed")
TypeErrorExc == Exc("TypeError", <<"catching classes that do not inherit from BaseException">>)

\* The text _call_ollama hands back: None, or data["response"].strip(),
\* which may be "" or carry a payload.
NoText == [some |-> FALSE, empty |-> TRUE, payload |-> NotJson]
EmptyText == [some |-> TRUE, empty |-> TRUE, payload |-> NotJson]
Text(p) == [some |-> TRUE, empty |-> FALSE, payload |-> p]

\* _call_ollama. An exception inside the try reaches
\* "except aiohttp.ClientTimeout", which is not an exception class: matching
\* it raises TypeError out of _call_ollama, and the "except Exception" clause
\* below it is never tried.
CallOllama(o) ==
    IF o.kind = "raise" THEN Raises(TypeErrorExc)
    ELSE IF o.kind = "status" THEN Returns(NoText)
    ELSE IF o.kind = "empty" THEN Returns(EmptyText)
    ELSE Returns(Text(o.payload))

\* Mutant: no "except Exception" around the model call.
ExtractStorageDataUncaught(o, url) ==
    LET r == CallOllama(o)
    IN  IF r.kind = "raise" THEN r
        ELSE IF ~r.value.some \/ r.value.empty THEN Returns(<<>>)
        ELSE Returns(ParseOllamaResponse(r.value.payload, url))

\* extract_storage_data: "except Exception" returns [], a falsy response
\* (None or "") returns [], otherwise the parsed units.
ExtractStorageData(o, url) ==
    LET r == CallOllama(o)
    IN  IF r.kind = "raise" THEN Returns(<<>>)
        ELSE IF ~r.value.some \/ r.value.empty THEN Returns(<<>>)
        ELSE Returns(ParseOllamaResponse(r.value.payload, url))

\* How the model call of a pipeline went, as kept in fault: "timeout",
\* "error" for every other failure of the extraction layer, "none".
ModelFault(o) ==
    IF o.kind = "raise" THEN o.exc.type
    ELSE IF o.kind \in {"status", "empty"} THEN "error"
    ELSE IF ~o.payload.json \/ ~o.payload.islist THEN "error"
    ELSE "none"

----------------------------------------------------------------------------
\* scraper.py

\* f"Failed to load page: HTTP {response.status if response else 'No response'}"
HttpErrorMsg(status) ==
    <<"Failed to load page: HTTP ",
      IF status = NoResponse THEN "No response" ELSE ToString(status)>>

\* f"Scraping error: {str(e)}"
ScrapingErrorMsg(e) == <<"Scraping error: ">> \o Str(e)

\* Mutant: the comparison is strict.
IsHttpFailureStrict(status) == status = NoResponse \/ status > 400

\* "if not response or response.status >= 400"
IsHttpFailure(status) == status = NoResponse \/ status >= 400

\* Mutant: the handler reports the page as scraped, with no units.
HandlerResultSwallowing(url, e) == ScrapingResult(url, TRUE, <<>>, None)

\* The "except Exception" handler of _scrape_url.
HandlerResult(url, e) == ScrapingResult(url, FALSE, <<>>, Some(ScrapingErrorMsg(e)))

\* The error branch of line 91-95.
HttpErrorResult(url, status) ==
    ScrapingResult(url, FALSE, <<>>,
                   Some(HttpErrorMsg(status)))

\* Mutant: the result built from the units is flagged as failed.
SuccessResultFlaggedFailed(url, units) == ScrapingResult(url, FALSE, units, None)

\* Lines 107-112.
SuccessResult(url, units) == ScrapingResult(url, TRUE, units, None)

\* Mutant: the client extracts every page under the url of the first one.
ExtractAndBuildFirstUrl(url, o) ==
    LET r == ExtractStorageData(o, UrlCatalogue[1])
    IN  IF r.kind = "raise" THEN HandlerResult(url, r.exc)
        ELSE SuccessResult(url, r.value)

\* Lines 105-117: the units of extract_storage_data become a successful
\* result; an exception out of it would reach the handler.
ExtractAndBuild(url, o) ==
    LET r == ExtractStorageData(o, url)
    IN  IF r.kind = "raise" THEN HandlerResult(url, r.exc)
        ELSE SuccessResult(url, r.value)

\* Config.max_retries
MaxRetries == 3

\* Mutant: a failed navigation is repeated max_retries times.
RetriesAfterFailureConfigured(max_retries) == max_retries

\* How often _scrape_url repeats a failed navigation: the handler of lines
\* 114-117 returns the failed result, and config.max_retries is read nowhere.
RetriesAfterFailure(max_retries) == 0

\* Mutant: the page is closed after the model call.
PageAfterContentKept(p) == p

\* Line 102: await page.close(), before extract_storage_data is called.
PageAfterContent(p) == "closed"

\* Mutant: acquire lets one task too many through.
CanAcquireOffByOne(s) == s >= 0

\* asyncio.Semaphore: acquire proceeds while the value is positive.
CanAcquire(s) == s > 0

\* Mutant: the slot is released on return only, not when an exception leaves
\* the coroutine.
SemAfterExitLeaky(s, escaped) == IF escaped THEN s ELSE s + 1

\* "async with semaphore" releases on return and on exception alike.
SemAfterExit(s, escaped) == s + 1

\* Mutant: exceptions are filtered out of the list.
RECURSIVE FinalResultsSkipping(_, _, _)
FinalResultsSkipping(results, us, i) ==
    IF i > Len(us) THEN <<>>
    ELSE (IF results[i].kind = "exception" THEN <<>> ELSE <<results[i]>>)
           \o FinalResultsSkipping(results, us, i + 1)

\* Mutant: the first exception is raised out of gather (return_exceptions
\* off): it is all the caller gets for this url and every later one.
RECURSIVE FinalResultsAborting(_, _, _)
FinalResultsAborting(results, us, i) ==
    IF i > Len(us) THEN <<>>
    ELSE IF results[i].kind = "exception"
         THEN [k \in 1..(Len(us) - i + 1) |->
                 ScrapingResult(us[i + k - 1], FALSE, <<>>, Some(Str(results[i].exc)))]
         ELSE <<results[i]>> \o FinalResultsAborting(results, us, i + 1)

\* Mutant: no isinstance branch, an exception is appended as it is.
RECURSIVE FinalResultsUnconverted(_, _, _)
FinalResultsUnconverted(results, us, i) ==
    IF i > Len(us) THEN <<>>
    ELSE <<results[i]>> \o FinalResultsUnconverted(results, us, i + 1)

\* The loop of lines 47-57 over gather's results.
RECURSIVE FinalResults(_, _, _)
FinalResults(results, us, i) ==
    IF i > Len(us) THEN <<>>
    ELSE LET r == results[i]
         IN  (IF r.kind = "exception"
              THEN <<ScrapingResult(us[i], FALSE, <<>>, Some(Str(r.exc)))>>
              ELSE <<r>>) \o FinalResults(results, us, i + 1)

\* The value of parse and clean while the function is not under test.
NotCalled == [pc |-> "none"]

VARIABLES
    browser,   \* self.browser: "none", "open" (launched) or "closed"
    call,      \* scrape_urls: "idle", "gathering", "returned" or "raised"
    urls,      \* the argument of scrape_urls
    env,       \* per task: profile of its environment ("free", "lite", "healthy", "hangs")
    sem,       \* value of the semaphore
    pc,        \* per task: where its coroutine is suspended
    page,      \* per task: the page of new_page: "none", "open", "closed"
    task,      \* per task: what gather holds for it
    status,    \* per task: response.status of page.goto (-1 before, 0 for None)
    fault,     \* per task: the failure its environment produced ("none" if none)
    navs,      \* per task: number of page.goto calls
    modelCalls,\* per task: number of extract_storage_data calls
    final,     \* the list scrape_urls returned
    parse,     \* a call of _parse_ollama_response: argument, locals, result
    clean      \* a call of _clean_html_for_llm: argument, locals, result

scraperVars == <<browser, call, urls, env, sem, pc, page, status, task, fault,
                 navs, modelCalls, final>>
vars == <<scraperVars, parse, clean>>

Tasks == 1..Len(urls)
Slots == 1..MaxUrls

\* The state after StorageScraper(config), with the environment profiles e.
Constructed(e) ==
    /\ browser = "none"
    /\ call = "idle"
    /\ urls = <<>>
    /\ env = e
    /\ sem = 0
    /\ pc = [i \in Slots |-> "none"]
    /\ page = [i \in Slots |-> "none"]
    /\ task = [i \in Slots |-> Pending]
    /\ status = [i \in Slots |-> NotNavigated]
    /\ fault = [i \in Slots |-> "none"]
    /\ navs = [i \in Slots |-> 0]
    /\ modelCalls = [i \in Slots |-> 0]
    /\ final = <<>>

InitWith(e) == Constructed(e) /\ parse = NotCalled /\ clean = NotCalled

Init == InitWith([i \in Slots |-> "free"])

\* __aenter__
Enter ==
    /\ browser = "none" /\ call = "idle"
    /\ browser' = "open"
    /\ UNCHANGED <<call, urls, env, parse, clean, sem, pc, page, status, task, fault, navs, modelCalls, final>>

\* __aexit__: runs when the body of the async-with block is over.
Exit ==
    /\ browser = "open" /\ call \in {"idle", "returned"}
    /\ browser' = "closed"
    /\ UNCHANGED <<call, urls, env, parse, clean, sem, pc, page, status, task, fault, navs, modelCalls, final>>

\* scrape_urls, line 35-36: "if not self.browser" is true only for None.
ScrapeUrlsRaise ==
    /\ call = "idle" /\ browser = "none"
    /\ call' = "raised"
    /\ UNCHANGED <<browser, urls, env, parse, clean, sem, pc, page, status, task, fault, navs, modelCalls, final>>

\* scrape_urls, line 38-44: create the semaphore and one task per url.
ScrapeUrls ==
    /\ call = "idle" /\ browser # "none"
    /\ \E n \in 0..MaxUrls :
         /\ urls' = SubSeq(UrlCatalogue, 1, n)
         /\ pc' = [i \in Slots |-> IF i <= n THEN "queued" ELSE "none"]
    /\ sem' = SemaphoreValue
    /\ call' = "gathering"
    /\ UNCHANGED <<browser, env, parse, clean, page, status, task, fault, navs, modelCalls, final>>

\* The coroutine of task i ends: the semaphore is released and gather keeps r.
Finish(i, r, f, escaped) ==
    /\ pc' = [pc EXCEPT ![i] = "done"]
    /\ task' = [task EXCEPT ![i] = r]
    /\ fault' = [fault EXCEPT ![i] = f]
    /\ sem' = SemAfterExit(sem, escaped)

\* _scrape_single_url line 67: acquire; _scrape_url line 73-77 up to the
\* await of new_page.
Acquire(i) ==
    /\ call = "gathering" /\ pc[i] = "queued"
    /\ CanAcquire(sem)
    /\ sem' = sem - 1
    /\ pc' = [pc EXCEPT ![i] = "new_page"]
    /\ UNCHANGED <<browser, call, urls, env, parse, clean, page, status, task, fault, navs, modelCalls, final>>

\* An exception raised outside the try block of _scrape_url (line 73) leaves
\* the coroutine: the semaphore is acquired and released, gather keeps the
\* exception.
Escape(i) ==
    /\ call = "gathering" /\ pc[i] = "queued"
    /\ CanAcquire(sem)
    /\ \E e \in Raisable(env[i], Exceptions) :
         /\ pc' = [pc EXCEPT ![i] = "done"]
         /\ task' = [task EXCEPT ![i] = Raised(e)]
         /\ fault' = [fault EXCEPT ![i] = e.type]
         /\ sem' = SemAfterExit(sem - 1, TRUE)
         /\ UNCHANGED <<browser, call, urls, env, parse, clean, page, status, navs, modelCalls, final>>

\* line 77-82: page = await self.browser.new_page() (a closed browser
\* raises), then await page.set_extra_http_headers(...).
NewPage(i) ==
    /\ pc[i] = "new_page"
    /\ \/ /\ browser = "open"
          /\ page' = [page EXCEPT ![i] = "open"]
          /\ \/ /\ pc' = [pc EXCEPT ![i] = "goto"]
                /\ UNCHANGED <<sem, task, fault>>
             \/ \E e \in RaisableByHeaders(env[i]) :
                  Finish(i, HandlerResult(urls[i], e), e.type, FALSE)
       \/ /\ \E e \in (IF browser = "open" THEN Raisable(env[i], PageExceptions)
                                           ELSE PageExceptions) :
               Finish(i, HandlerResult(urls[i], e), e.type, FALSE)
          /\ UNCHANGED page
    /\ UNCHANGED <<browser, call, urls, env, parse, clean, status, navs, modelCalls, final>>

\* line 85-95: await page.goto(...), then the status check; the error branch
\* closes the page and returns. An exception of page.goto reaches the
\* handler, which returns: the navigation is not repeated.
Goto(i) ==
    /\ pc[i] = "goto"
    /\ env[i] # "hangs"
    /\ navs' = [navs EXCEPT ![i] = @ + 1]
    /\ \/ /\ \E e \in Raisable(env[i], Exceptions) :
               IF navs[i] < RetriesAfterFailure(MaxRetries)
               THEN UNCHANGED <<sem, pc, task, fault>>
               ELSE Finish(i, HandlerResult(urls[i], e), e.type, FALSE)
          /\ UNCHANGED <<page, status>>
       \/ \E st \in StatusesOf(env[i]) :
            /\ status' = [status EXCEPT ![i] = st]
            /\ IF IsHttpFailure(st)
               THEN /\ page' = [page EXCEPT ![i] = "closed"]
                    /\ Finish(i, HttpErrorResult(urls[i], st), "none", FALSE)
               ELSE /\ pc' = [pc EXCEPT ![i] = "content"]
                    /\ UNCHANGED <<sem, page, task, fault>>
    /\ UNCHANGED <<browser, call, urls, env, parse, clean, modelCalls, final>>

\* line 98-102: wait_for_timeout, page.content(), page.close()
Content(i) ==
    /\ pc[i] = "content"
    /\ \/ /\ \E e \in Raisable(env[i], PageExceptions) :
               Finish(i, HandlerResult(urls[i], e), e.type, FALSE)
          /\ UNCHANGED page
       \/ /\ page' = [page EXCEPT ![i] = PageAfterContent(@)]
          /\ pc' = [pc EXCEPT ![i] = "extract"]
          /\ UNCHANGED <<sem, task, fault>>
    /\ UNCHANGED <<browser, call, urls, env, parse, clean, status, navs, modelCalls, final>>

\* line 105-112: extract_storage_data and the result built from its units.
Extract(i) ==
    /\ pc[i] = "extract"
    /\ \E o \in ModelOutcomesOf(env[i]) :
         /\ Finish(i, ExtractAndBuild(urls[i], o), ModelFault(o), FALSE)
    /\ modelCalls' = [modelCalls EXCEPT ![i] = @ + 1]
    /\ UNCHANGED <<browser, call, urls, env, parse, clean, page, status, navs, final>>

\* line 44-62: gather has every result; build and return final_results.
Return ==
    /\ call = "gathering"
    /\ \A i \in Tasks : pc[i] = "done"
    /\ final' = FinalResults(task, urls, 1)
    /\ call' = "returned"
    /\ UNCHANGED <<browser, urls, env, parse, clean, sem, pc, page, status, task, fault,
                   navs, modelCalls>>

Pipeline(i) ==
    \/ Acquire(i) \/ Escape(i) \/ NewPage(i)
    \/ Goto(i) \/ Content(i) \/ Extract(i)

Next ==
    \/ Enter \/ Exit \/ ScrapeUrlsRaise \/ ScrapeUrls \/ Return
    \/ \E i \in Slots : Pipeline(i)

Spec == Init /\ [][Next]_vars

\* The event loop runs every task that can take a step, and gather returns
\* once every task is done.
Fairness == WF_vars(Return) /\ \A i \in Slots : WF_vars(Pipeline(i))

\* Every call of the environment returns or raises.
LiteInit == InitWith([i \in Slots |-> "lite"])
FairSpec == LiteInit /\ [][Next]_vars /\ Fairness

\* Fewer pipelines than the semaphore has permits hang in page.goto.
HangInit ==
    \E H \in SUBSET Slots :
        /\ Cardinality(H) < SemaphoreValue
        /\ InitWith([i \in Slots |-> IF i \in H THEN "hangs" ELSE "lite"])
HangSpec == HangInit /\ [][Next]_vars /\ Fairness

\* One url has a fault-free environment, the others any environment.
IsoInit ==
    \E h \in Slots : InitWith([i \in Slots |-> IF i = h THEN "healthy" ELSE "free"])
IsoSpec == IsoInit /\ [][Next]_vars

----------------------------------------------------------------------------
\* _parse_ollama_response on its own

\* Most elements of an array in a reply.
MaxItems == 2

\* The texts of array elements: an object, a number, a nested array.
ElementTexts == {<<tok>> : tok \in ValueTokens} \cup {<<"[", "7", "]">>}

RECURSIVE JoinElements(_)
JoinElements(es) ==
    IF es = <<>> THEN <<>>
    ELSE IF Len(es) = 1 THEN es[1]
    ELSE es[1] \o <<",", "\n">> \o JoinElements(Tail(es))

ArrayText(es) == <<"[">> \o JoinElements(es) \o <<"]">>
ArrayTexts ==
    UNION {{ArrayText(es) : es \in [1..n -> ElementTexts]} : n \in 0..MaxItems}

\* Replies that are no array: nothing, words, a lone object, a number, an
\* array that is cut off.
OtherTexts == {<<>>, <<"w", " ", "w">>, <<"{size,price}">>, <<"7">>,
               <<"[", "{size,price}", ",">>}

\* What the model writes around its answer: nothing, words, words with a
\* stray bracket, words with a bracketed reference.
ProseTexts == {<<>>, <<"w", "\n">>, <<"w", "]", " ">>, <<"w", "[", "w", " ">>,
               <<"w", "[", "7", "]", " ">>}

ParseCalled(prefix, body, suffix) ==
    [pc |-> "called", prefix |-> prefix, body |-> body, suffix |-> suffix,
     response |-> prefix \o body \o suffix, url |-> UrlCatalogue[1],
     span |-> <<0, 0>>, json_str |-> <<>>, data |-> NotJson, units |-> <<>>]

ParseInit ==
    /\ Constructed([i \in Slots |-> "free"])
    /\ clean = NotCalled
    /\ \E prefix \in ProseTexts, body \in ArrayTexts \cup OtherTexts,
          suffix \in ProseTexts :
          parse = ParseCalled(prefix, body, suffix)

\* units = self._parse_ollama_response(response, url)
ParseResponse ==
    /\ parse.pc = "called"
    /\ LET r == ParseResponseText(parse.response, parse.url)
       IN  parse' = [parse EXCEPT
                       !.pc = IF r.kind = "return" THEN "returned" ELSE "raised",
                       !.span = SearchSpan(parse.response),
                       !.json_str = JsonStr(parse.response),
                       !.data = JsonLoads(JsonStr(parse.response)),
                       !.units = IF r.kind = "return" THEN r.value ELSE <<>>]
    /\ UNCHANGED <<scraperVars, clean>>

ParseNext == ParseResponse

ParseSpec == ParseInit /\ [][ParseNext]_vars

----------------------------------------------------------------------------
\* _clean_html_for_llm on its own

\* Lengths explored on each side of max_chars.
Slack == 4

Lengths == {0} \cup ((MaxChars - Slack)..(MaxChars + Slack))

CleanCalled(html_len, text_len, raises) ==
    [pc |-> "called", html_len |-> html_len, text_len |-> text_len,
     raises |-> raises, out_len |-> 0]

\* The cleaned text is never longer than the html it comes from.
CleanInit ==
    /\ Constructed([i \in Slots |-> "free"])
    /\ parse = NotCalled
    /\ \E html_len \in Lengths, text_len \in Lengths, raises \in BOOLEAN :
          /\ text_len <= html_len
          /\ clean = CleanCalled(html_len, text_len, raises)

\* cleaned_html = self._clean_html_for_llm(html_content)
CleanHtml ==
    /\ clean.pc = "called"
    /\ clean' = [clean EXCEPT
                   !.pc = "returned",
                   !.out_len = CleanHtmlForLlm(clean.html_len, clean.text_len,
                                               clean.raises, MaxChars)]
    /\ UNCHANGED <<scraperVars, parse>>

CleanNext == CleanHtml

CleanSpec == CleanInit /\ [][CleanNext]_vars

TypeOK ==
    /\ browser \in {"none", "open", "closed"}
    /\ call \in {"idle", "gathering", "returned", "raised"}
    /\ sem \in 0..SemaphoreValue
    /\ \A i \in Slots : pc[i] \in {"none", "queued", "new_page", "goto",
                                   "content", "extract", "done"}

----------------------------------------------------------------------------
\* Properties

Running == {i \in Slots : pc[i] \in {"new_page", "goto", "content", "extract"}}
Succeeded(i) == task[i].kind = "result" /\ task[i].success
IsSet(error) == error # None /\ error[1] # EmptyStr

\* C1: scrape_urls returns exactly one result per input url, and the result
\* at index k is the result for the k-th url, whatever the order in which
\* the pipelines completed.
C1_OnePerUrlInOrder ==
    call = "returned" =>
        /\ Len(final) = Len(urls)
        /\ \A k \in 1..Len(urls) :
             final[k].kind = "result" /\ final[k].url = urls[k]

C1_Witness ==
    /\ call = "returned" /\ Len(urls) >= 4
    /\ task[1].kind = "exception"
    /\ final[2].success
    /\ task[3].kind = "result" /\ ~final[3].success
    /\ final[4].url = urls[4]

\* C2: never more than 3 pipelines execute at once, and a queued url starts
\* only when fewer than 3 are executing.
C2_AtMostThreeRunning ==
    /\ [](Cardinality(Running) <= 3)
    /\ [][\A i \in Slots : (pc[i] = "queued" /\ pc'[i] # "queued")
                              => Cardinality(Running) < 3]_vars

C2_Witness ==
    /\ Cardinality(Running) = 3
    /\ \E i \in Slots : pc[i] = "queued"

\* C3: when a pipeline has ended, the page it opened is closed.
C3_PageClosedOnEveryExit ==
    \A i \in Slots : pc[i] = "done" => page[i] # "open"

\* What a run without any failure returns for url.
ReferenceResult(url) ==
    SuccessResult(url, <<StorageUnit(url, <<"5x5">>, <<"$50/month">>)>>)

\* C4: whichever pipelines fail, the run returns a result for every url, and
\* a url whose own environment is fault-free gets the result of the run in
\* which nothing failed.
C4_FailureIsolation ==
    (call = "returned" /\ browser = "open") =>
        /\ Len(final) = Len(urls)
        /\ \A k \in 1..Len(urls) :
             env[k] = "healthy" => final[k] = ReferenceResult(urls[k])

C4_Witness ==
    /\ call = "returned" /\ browser = "open" /\ Len(urls) >= 4
    /\ task[1].kind = "exception"
    /\ task[2].kind = "result" /\ ~final[2].success /\ page[2] = "open"
    /\ env[3] = "healthy" /\ final[3] = ReferenceResult(urls[3])
    /\ final[4].success /\ final[4].units = <<>> /\ fault[4] = "error"

\* C5: in every returned result, error is set and non-empty exactly when
\* success is false.
C5_ErrorIffNotSuccess ==
    call = "returned" =>
        \A k \in 1..Len(final) : IsSet(final[k].error) <=> ~final[k].success

\* C6: a response with status >= 400 ends the pipeline with a failed result
\* whose error mentions the status, and no model call is made for the url.
C6_HttpErrorFails ==
    \A i \in Slots : status[i] >= 400 =>
        /\ pc[i] = "done"
        /\ modelCalls[i] = 0
        /\ task[i].kind = "result" /\ ~task[i].success
        /\ IsSet(task[i].error)
        /\ ToString(status[i]) \in Range(task[i].error[1])
        /\ call = "returned" => final[i] = task[i]

C6_Witness ==
    /\ call = "returned"
    /\ \E k \in 1..Len(urls) :
         status[k] = 404 /\ ~final[k].success /\ "404" \in Range(final[k].error[1])

\* The page of task i was fetched and its extraction failed.
ExtractionFailed(i) ==
    /\ pc[i] = "done" /\ status[i] \in 1..399
    /\ page[i] = "closed" /\ fault[i] # "none"

\* C7: after a successful fetch, a failure of the extraction layer gives a
\* successful result with no units.
C7_ExtractionFailureAbsorbed ==
    \A i \in Slots : ExtractionFailed(i) =>
        /\ task[i] = SuccessResult(urls[i], <<>>)
        /\ call = "returned" => final[i] = task[i]

C7_Witness ==
    /\ call = "returned" /\ Len(urls) >= 2
    /\ ExtractionFailed(1) /\ fault[1] = "timeout" /\ final[1].success
    /\ ExtractionFailed(2) /\ fault[2] = "error" /\ final[2].units = <<>>

\* A step in which a running pipeline ends on a timeout releases its slot and
\* changes nothing of the other pipelines.
TimeoutIsLocal ==
    \A i \in Slots :
        (i \in Running /\ pc'[i] = "done" /\ fault'[i] = "timeout") =>
            /\ sem' = sem + 1
            /\ \A j \in Slots \ {i} :
                 pc'[j] = pc[j] /\ task'[j] = task[j] /\ page'[j] = page[j]

\* C8 as stated: a timeout of the fetch or of the extraction call makes the
\* url's outcome a failure, without blocking or cancelling the others.
C8_TimeoutFails ==
    /\ [](\A i \in Slots : (pc[i] = "done" /\ fault[i] = "timeout") => ~Succeeded(i))
    /\ [][TimeoutIsLocal]_vars

\* C8 amended: a timeout of the fetch makes the url's outcome a failure; a
\* timeout of the extraction call is absorbed into a successful result with
\* no units; neither blocks nor cancels the others.
C8_FetchTimeoutFailsExtractionTimeoutAbsorbed ==
    /\ [](\A i \in Slots : (pc[i] = "done" /\ fault[i] = "timeout") =>
            /\ modelCalls[i] = 0 => ~Succeeded(i)
            /\ modelCalls[i] = 1 => task[i] = SuccessResult(urls[i], <<>>))
    /\ [][TimeoutIsLocal]_vars

C8_Witness ==
    /\ call = "returned" /\ Len(urls) >= 2
    /\ fault[1] = "timeout" /\ modelCalls[1] = 0 /\ page[1] = "open"
    /\ task[1].kind = "result" /\ ~final[1].success
    /\ fault[2] = "timeout" /\ modelCalls[2] = 1 /\ final[2].success

\* C9: under fair scheduling, when every call returns or raises, a run of
\* scrape_urls returns the full list, and no url waits for a slot forever.
C9_RunCompletes ==
    (call = "gathering") ~>
        /\ call = "returned" /\ Len(final) = Len(urls)
        /\ \A i \in Tasks : pc[i] = "done"

C9_Witness ==
    /\ call = "returned" /\ Len(urls) >= 4
    /\ \A k \in 1..Len(urls) : ~final[k].success
    /\ \E k \in 1..Len(urls) : task[k].kind = "exception"

Hung == {i \in Slots : env[i] = "hangs" /\ pc[i] = "goto"}

\* C10: a pipeline that hangs holds one slot; with fewer than 3 hung, every
\* other url's pipeline starts and finishes, and a step of one pipeline
\* never changes another.
C10_HungHoldsOneSlot ==
    /\ [](call = "gathering" => sem + Cardinality(Running) = 3)
    /\ [](Hung \subseteq Running)
    /\ (call = "gathering") ~> (\A i \in Tasks : env[i] # "hangs" => pc[i] = "done")
    /\ [][\A i \in Slots : (call = "gathering" /\ pc'[i] # pc[i]) =>
             \A j \in Slots \ {i} : pc'[j] = pc[j] /\ task'[j] = task[j]]_vars

C10_Witness ==
    /\ Cardinality(Hung) = 2 /\ Len(urls) >= 4
    /\ \A i \in 1..Len(urls) : i \notin Hung => pc[i] = "done"
    /\ \E i \in 1..Len(urls) : Succeeded(i)

\* C11: every unit _parse_ollama_response returns, and so every unit of a
\* successful result, has a non-empty size and a non-empty price.
C11_UnitsHaveSizeAndPrice ==
    parse.pc = "returned" =>
        \A k \in 1..Len(parse.units) :
            parse.units[k].size # EmptyStr /\ parse.units[k].price # EmptyStr

\* C12: an exception that escapes a pipeline is never raised to the caller
\* of scrape_urls; the returned list holds results only, and the entry of
\* such a url is a failed result whose error is str(exception).
C12_EscapedExceptionBecomesFailedResult ==
    /\ (\E i \in Slots : task[i].kind = "exception") => call # "raised"
    /\ call = "returned" =>
          \A k \in 1..Len(urls) :
              /\ final[k].kind = "result"
              /\ task[k].kind = "exception" =>
                    /\ final[k].url = urls[k]
                    /\ ~final[k].success
                    /\ final[k].error = Some(Str(task[k].exc))

C12_Witness ==
    /\ call = "returned" /\ Len(urls) >= 3
    /\ task[1] = Raised(TimeoutExc) /\ final[1].error = <<<<"Timeout exceeded">>>>
    /\ task[2] = Raised(BareExc) /\ ~final[2].success
    /\ task[3].kind = "result" /\ final[3].success

\* C13: every result with success false has no units, whether it comes from
\* an HTTP error, a missing response, an exception inside the pipeline or an
\* exception caught at the gather boundary.
C13_FailedResultHasNoUnits ==
    /\ \A i \in Slots :
          (task[i].kind = "result" /\ ~task[i].success) => task[i].units = <<>>
    /\ call = "returned" =>
          \A k \in 1..Len(final) : ~final[k].success => final[k].units = <<>>

C13_Witness ==
    /\ call = "returned" /\ Len(urls) >= 4
    /\ status[1] = 404 /\ ~final[1].success
    /\ status[2] = NoResponse /\ ~final[2].success
    /\ task[3].kind = "result" /\ fault[3] # "none" /\ ~final[3].success
    /\ task[4].kind = "exception" /\ ~final[4].success
    /\ \A k \in 1..4 : final[k].units = <<>>

\* C14: every unit of a result carries the url of that result, which is the
\* url of the input at the same index, however the pipelines interleave.
C14_UnitUrlIsResultUrl ==
    /\ \A i \in Slots : task[i].kind = "result" =>
          \A u \in Range(task[i].units) : u.url = urls[i]
    /\ call = "returned" =>
          \A k \in 1..Len(final) :
              \A u \in Range(final[k].units) :
                  u.url = final[k].url /\ u.url = urls[k]

C14_Witness ==
    /\ call = "returned" /\ Len(urls) >= 3
    /\ \A k \in 1..3 : final[k].units # <<>> /\ final[k].units[1].url = urls[k]

\* C15: when the response is not JSON, or its payload is not a list,
\* _parse_ollama_response returns [] and raises nothing.
C15_NotJsonOrNotListGivesNoUnits ==
    /\ parse.pc # "raised"
    /\ (parse.pc = "returned" /\ (~parse.data.json \/ ~parse.data.islist))
          => parse.units = <<>>

C15_Witness ==
    /\ parse.pc = "returned" /\ parse.response = <<"w", "\n", "{size,price}", "w", "\n">>
    /\ parse.data = NotJson /\ parse.units = <<>>

\* The units of the accepted elements of a parsed array, in array order.
UnitsOf(items, url) ==
    LET acc == SelectSeq(items, Accepted)
    IN  [k \in 1..Len(acc) |->
            StorageUnit(url, Strip(StrOf(acc[k].size)), Strip(StrOf(acc[k].price)))]

\* C17: for a list payload the units are exactly the elements that are
\* objects with both a size and a price key, in array order; every other
\* element is skipped, and the elements around it are kept.
C17_UnitsAreTheKeyedObjectsInOrder ==
    (parse.pc = "returned" /\ parse.data.islist) =>
        /\ parse.units = UnitsOf(parse.data.items, parse.url)
        /\ Len(parse.units) =
             Cardinality({k \in 1..Len(parse.data.items) : Accepted(parse.data.items[k])})

C17_Witness ==
    /\ parse.pc = "returned"
    /\ parse.data = JsonList(<<NoPriceItem, PaddedItem>>)
    /\ parse.units = <<StorageUnit(parse.url, <<"10x10">>, <<"$99">>)>>

\* The candidate is the span from the first "[" to the last "]" when a "]"
\* follows a "[", and the whole trimmed response otherwise.
CandidateIsGreedySpan ==
    LET r == parse.response
        m == parse.span
    IN  IF \E i, j \in 1..Len(r) : i < j /\ r[i] = "[" /\ r[j] = "]"
        THEN /\ r[m[1]] = "[" /\ r[m[2]] = "]"
             /\ \A i \in 1..(m[1] - 1) : r[i] # "["
             /\ \A j \in (m[2] + 1)..Len(r) : r[j] # "]"
             /\ parse.json_str = SubSeq(r, m[1], m[2])
        ELSE /\ m = <<0, 0>>
             /\ parse.json_str = Strip(r)

\* The response is one JSON array between two pieces of prose, neither of
\* which holds a bracketed span of its own.
HasSpan(text) == \E i, j \in 1..Len(text) : i < j /\ text[i] = "[" /\ text[j] = "]"
WrapsOneArray ==
    parse.body \in ArrayTexts /\ ~HasSpan(parse.prefix) /\ ~HasSpan(parse.suffix)

\* C18 as stated: the candidate is the greedy first bracketed span, or the
\* trimmed response when there is none, and a response that wraps one valid
\* JSON array in prose yields exactly the units of that array.
C18_WrappedArrayYieldsItsUnits ==
    parse.pc = "returned" =>
        /\ CandidateIsGreedySpan
        /\ WrapsOneArray =>
              parse.units = UnitsOf(JsonLoads(parse.body).items, parse.url)

\* C18 amended: the same, for prose that has no "[" before the array and no
\* "]" after it.
C18_WrappedArrayInBracketFreeProse ==
    parse.pc = "returned" =>
        /\ CandidateIsGreedySpan
        /\ (/\ parse.body \in ArrayTexts
            /\ "[" \notin Range(parse.prefix)
            /\ "]" \notin Range(parse.suffix)) =>
              parse.units = UnitsOf(JsonLoads(parse.body).items, parse.url)

C18_Witness ==
    /\ parse.pc = "returned"
    /\ parse.prefix = <<"w", "]", " ">> /\ parse.suffix = <<"w", "[", "w", " ">>
    /\ parse.body = <<"[", "[", "7", "]", ",", "\n", "{size,price}", "]">>
    /\ parse.span = <<4, 11>>
    /\ parse.units = <<StorageUnit(parse.url, <<"5x5">>, <<"$50/month">>)>>

\* C16: for an html whose cleaned text (on the fallback path: the html
\* itself) is longer than max_chars, _clean_html_for_llm returns at most
\* max_chars + len("...") = 8003 characters.
C16_TruncatedToBudgetPlusMarker ==
    (/\ clean.pc = "returned"
     /\ IF clean.raises THEN clean.html_len > MaxChars
                         ELSE clean.text_len > MaxChars) =>
        /\ clean.out_len <= MaxChars + MarkerLen
        /\ clean.out_len <= 8003

C16_Witness ==
    /\ clean.pc = "returned" /\ ~clean.raises
    /\ clean.text_len = MaxChars + 4 /\ clean.out_len = 8003

\* C19: a url is navigated at most once and extracted at most once,
\* whatever max_retries is: a failed navigation ends the pipeline.
C19_NoRetry ==
    \A i \in Slots :
        /\ navs[i] <= 1 /\ modelCalls[i] <= 1
        /\ (navs[i] = 1 /\ status[i] = NotNavigated) => pc[i] = "done"

C19_Witness ==
    /\ MaxRetries > 0 /\ call = "returned" /\ Len(urls) >= 2
    /\ navs[1] = 1 /\ status[1] = NotNavigated /\ fault[1] = "timeout"
    /\ ~final[1].success /\ modelCalls[1] = 0
    /\ navs[2] = 1 /\ modelCalls[2] = 1 /\ fault[2] = "error"

\* C20: when the model call of a url starts, and ever after, the page of the
\* url is closed, and its navigation returned a response with a status
\* below 400.
C20_PageClosedBeforeModelCall ==
    \A i \in Slots :
        (pc[i] = "extract" \/ modelCalls[i] > 0) =>
            /\ page[i] = "closed"
            /\ navs[i] = 1 /\ status[i] \in 1..399

C20_Witness ==
    /\ Len(urls) >= 2
    /\ pc[1] = "extract" /\ page[1] = "closed" /\ modelCalls[1] = 0
    /\ pc[2] = "done" /\ modelCalls[2] = 1 /\ Succeeded(2) /\ task[2].units # <<>>

\* A call of scrape_urls made in this step passed the guard and created its
\* tasks instead of raising.
CallAccepted == call = "idle" /\ call' = "gathering"

\* C21: pipelines run only while the browser is open: a call of scrape_urls
\* made before __aenter__ or after __aexit__ raises and starts no pipeline,
\* and __aexit__ closes the browser only when every pipeline of the run has
\* finished.
C21_PipelinesOnlyWhileBrowserOpen ==
    /\ [][CallAccepted => browser = "open"]_vars
    /\ [](call = "raised" => \A i \in Slots : pc[i] = "none")
    /\ []((\E i \in Slots : pc[i] \notin {"none", "done"}) => browser = "open")
    /\ [][(browser = "open" /\ browser' = "closed") =>
             \A i \in Slots : pc[i] \in {"none", "done"}]_vars
====
